---- MODULE Spec2Model ----
(***************************************************************************)
(* Model of the timeboost-contract crate: the two-transaction deployer     *)
(* (deployer.rs), the event stream of PubSubProvider (provider.rs), and    *)
(* the chain and KeyManager contract they talk to.                         *)
(*                                                                         *)
(* The chain is the environment.  A creation transaction that is mined     *)
(* either creates the contract and its receipt names the created address,  *)
(* or creates nothing and its receipt names no address (what the test      *)
(* chain reports for a reverted creation).  Every transaction is mined in  *)
(* a block of its own (the test chain's automine), in the order of the     *)
(* signer's nonces, which is the order of submission.  A transaction may   *)
(* stay pending for ever, and may be mined after the call that sent it     *)
(* has returned.                                                           *)
(***************************************************************************)
EXTENDS Integers, Sequences, FiniteSets, TLC

\* ------------------------------------------------------------------ bounds
MaxCalls == 2
MaxCommittees == 2
MaxRaw == 4
MaxBlocks == 4

\* ------------------------------------------------------------- primitives
\* Option<T>: None is the empty sequence, Some(x) the one-element sequence.
None == <<>>
Some(x) == <<x>>

Address_default == 0
Accounts == {1, 2}
default_signer_address == CHOOSE a \in Accounts : \A b \in Accounts : a <= b

\* The address of a contract created by the signer's transaction with `n`.
CreateAddress(n) == Cardinality(Accounts) + 1 + n

\* The (timestamp, members) arguments the caller passes to setNextCommittee.
CommitteeInputs ==
    { [timestamp |-> 1, members |-> <<"m1">>],
      [timestamp |-> 2, members |-> <<"m1", "m2">>] }

\* The names deploy() is called with (deployer.rs lines 38 and 44).
KeyManagerName == "KeyManager"
ProxyName == "KeyManagerProxy"

\* Event signatures (topic 0 of a log).
CommitteeCreated_SIGNATURE == "CommitteeCreated(uint64)"
Upgraded_SIGNATURE == "Upgraded(address)"
Initialized_SIGNATURE == "Initialized(uint64)"

VARIABLES
    \* --- chain (environment)
    blockNumber,   \* height of the chain: number of blocks mined
    nonce,         \* the signer's account nonce
    code,          \* address -> deployed contract (its storage)
    logs,          \* every log emitted on chain, in emission order
    receipts,      \* tx hash -> receipt of a mined transaction
    mempool,       \* transactions the node holds and has not mined (yet, or ever)
    sent,          \* every transaction the node accepted; its hash is its index - 1
    \* --- one caller running deploy_key_manager_contract
    pc,            \* "idle" | "send" | "wait": position inside deploy()
    name,          \* the `name` argument of the running deploy()
    manager,       \* the `manager` argument of the running call
    impl_addr,     \* Option: the local impl_addr
    tx,            \* the transaction the running deploy() builds / awaits
    attempts,      \* names of the tx.send() calls made by the running call
    obtained,      \* receipts get_receipt() returned to the running call
    history,       \* the completed calls, in order
    \* --- one subscription made by PubSubProvider::event_stream
    sub,           \* Option: the filter of the open subscription
    raw,           \* entries the underlying log stream has delivered
    yielded,       \* items the produced stream has yielded
    rawEnded,      \* the underlying stream has ended
    ended          \* the produced stream has ended

chainVars == <<blockNumber, nonce, code, logs, receipts, mempool, sent>>
callVars == <<pc, name, manager, impl_addr, tx, attempts, obtained, history>>
streamVars == <<sub, raw, yielded, rawEnded, ended>>
vars == <<chainVars, callVars, streamVars>>

\* A transaction request: the contract it creates, its constructor arguments, the
\* call of deploy_key_manager_contract that built it, and (once sent) its hash.
NoHash == 0 - 1
NoTx == [name |-> "", args |-> <<>>, call |-> 0, hash |-> NoHash]

InitChain ==
    /\ blockNumber = 0
    /\ nonce = 0
    /\ code = <<>>
    /\ logs = <<>>
    /\ receipts = <<>>
    /\ mempool = {}
    /\ sent = <<>>

InitCall ==
    /\ pc = "idle"
    /\ name = ""
    /\ manager = Address_default
    /\ impl_addr = None
    /\ tx = NoTx
    /\ attempts = <<>>
    /\ obtained = <<>>
    /\ history = <<>>

Init ==
    /\ InitChain
    /\ InitCall
    /\ sub = None
    /\ raw = <<>>
    /\ yielded = <<>>
    /\ rawEnded = FALSE
    /\ ended = FALSE

\* ------------------------------------------------ contracts (environment)
\* KeyManager's implementation contract: its own storage is never initialized.
ImplementationContract ==
    [kind |-> "impl", implementation |-> Address_default,
     manager |-> Address_default, committees |-> <<>>]

\* calldata of KeyManager.initialize(manager): selector, then the argument.
EncodeInitialize(m) == <<"initialize", m>>

\* ERC1967Proxy's constructor: the implementation must hold code, and the
\* initializer data is run against the proxy's own storage.
ProxyConstructible(args) ==
    /\ Len(args) = 2
    /\ args[1] \in DOMAIN code
    /\ code[args[1]].kind = "impl"
    /\ Len(args[2]) = 2
    /\ args[2][1] = "initialize"

ProxyContract(args) ==
    [kind |-> "proxy", implementation |-> args[1],
     manager |-> args[2][2], committees |-> <<>>]

\* A log as the chain emits it, in the block being mined.
ChainLog(addr, sig, data, hash) ==
    [address |-> addr, topic0 |-> sig, data |-> data,
     block_number |-> blockNumber + 1, transaction_hash |-> hash]

ProxyCreationLogs(addr, t) ==
    << ChainLog(addr, Upgraded_SIGNATURE, <<t.args[1]>>, t.hash),
       ChainLog(addr, Initialized_SIGNATURE, <<1>>, t.hash) >>

\* manager() read through the contract at `a`.
manager_call(a) == code[a].manager

\* getCommitteeById(id) read through the contract at `a`.
getCommitteeById(a, id) == code[a].committees[id + 1]

Receipt(addrOpt) == [contract_address |-> addrOpt, block_number |-> blockNumber + 1]

\* The pending transaction the chain can mine next: the signer's transactions
\* are mined in the order of their nonces, that is, of their submission.
IsNextToMine(t) ==
    /\ t \in mempool
    /\ \A u \in mempool : t.hash <= u.hash

\* The chain mines a pending creation transaction and the creation succeeds.
MineCreated(t) ==
    /\ IsNextToMine(t)
    /\ t.name = ProxyName => ProxyConstructible(t.args)
    /\ LET addr == CreateAddress(nonce) IN
        /\ code' = code @@ (addr :> (IF t.name = ProxyName
                                       THEN ProxyContract(t.args)
                                       ELSE ImplementationContract))
        /\ logs' = IF t.name = ProxyName
                    THEN logs \o ProxyCreationLogs(addr, t)
                    ELSE logs
        /\ receipts' = receipts @@ (t.hash :> Receipt(Some(addr)))
    /\ mempool' = mempool \ {t}
    /\ blockNumber' = blockNumber + 1
    /\ nonce' = nonce + 1
    /\ UNCHANGED <<sent, callVars, streamVars>>

\* The chain mines a pending creation transaction and the creation reverts:
\* nothing is created and the receipt names no contract address.
MineReverted(t) ==
    /\ IsNextToMine(t)
    /\ receipts' = receipts @@ (t.hash :> Receipt(None))
    /\ mempool' = mempool \ {t}
    /\ blockNumber' = blockNumber + 1
    /\ nonce' = nonce + 1
    /\ UNCHANGED <<code, logs, sent, callVars, streamVars>>

\* ----------------------------------------------------------- deployer.rs
\* Result<Address, alloy::contract::Error>
Ok(a) == [ok |-> TRUE, addr |-> Some(a), err |-> ""]
Err(e) == [ok |-> FALSE, addr |-> None, err |-> e]

\* KeyManager::deploy_builder(&provider)
KeyManager_deploy_builder ==
    [name |-> KeyManagerName, args |-> <<>>, call |-> Len(history) + 1, hash |-> NoHash]

\* Mutant: the initializer is encoded for the signer, not for `manager`.
ERC1967Proxy_deploy_builder_signer(impl, m) ==
    [name |-> ProxyName, args |-> <<impl, EncodeInitialize(default_signer_address)>>,
     call |-> Len(history) + 1, hash |-> NoHash]

\* ERC1967Proxy::deploy_builder(&provider, impl_addr, init_data), with
\* init_data = km.initialize(manager).calldata()
ERC1967Proxy_deploy_builder(impl, m) ==
    [name |-> ProxyName, args |-> <<impl, EncodeInitialize(m)>>,
     call |-> Len(history) + 1, hash |-> NoHash]

\* Mutant: a missing address is replaced by the default address.
contract_address_unwrap_or_default(receipt) ==
    IF receipt.contract_address = None
    THEN Ok(Address_default)
    ELSE Ok(receipt.contract_address[1])

\* receipt.contract_address.ok_or(ContractNotDeployed)
contract_address_ok_or(receipt) ==
    IF receipt.contract_address = None
    THEN Err("ContractNotDeployed")
    ELSE Ok(receipt.contract_address[1])

\* Mutant: the implementation's address is returned.
deploy_key_manager_contract_value_impl(impl, proxy) == impl

\* What deploy_key_manager_contract returns once both deployments succeeded.
deploy_key_manager_contract_value(impl, proxy) == proxy

\* The call returns `res` to its caller.
Return(res, att, obt) ==
    /\ history' = Append(history,
                     [manager |-> manager, impl_addr |-> impl_addr,
                      attempts |-> att, obtained |-> obt, result |-> res])
    /\ pc' = "idle"
    /\ tx' = NoTx
    /\ attempts' = att
    /\ obtained' = obt
    /\ UNCHANGED <<name, manager>>

\* The caller calls deploy_key_manager_contract(provider, m): the implementation's
\* creation transaction is built and deploy("KeyManager", tx) entered.
deploy_key_manager_contract(m) ==
    /\ pc = "idle"
    /\ Len(history) < MaxCalls
    /\ manager' = m
    /\ tx' = KeyManager_deploy_builder
    /\ name' = KeyManagerName
    /\ impl_addr' = None
    /\ attempts' = <<>>
    /\ obtained' = <<>>
    /\ pc' = "send"
    /\ UNCHANGED <<history, chainVars, streamVars>>

\* Mutant: the transaction is sent twice, and the second one awaited.
deploy_send_twice ==
    /\ pc = "send"
    /\ blockNumber + Cardinality(mempool) + 1 < MaxBlocks
    /\ LET first == [tx EXCEPT !.hash = Len(sent)]
           pending_tx == [tx EXCEPT !.hash = Len(sent) + 1] IN
        /\ mempool' = mempool \cup {first, pending_tx}
        /\ sent' = sent \o <<first, pending_tx>>
        /\ tx' = pending_tx
    /\ attempts' = Append(attempts, name)
    /\ pc' = "wait"
    /\ UNCHANGED <<blockNumber, nonce, code, logs, receipts>>
    /\ UNCHANGED <<name, manager, impl_addr, obtained, history, streamVars>>

\* deploy(): tx.send() succeeds, the transaction is pending.
deploy_send ==
    /\ pc = "send"
    /\ blockNumber + Cardinality(mempool) < MaxBlocks
    /\ LET pending_tx == [tx EXCEPT !.hash = Len(sent)] IN
        /\ mempool' = mempool \cup {pending_tx}
        /\ sent' = Append(sent, pending_tx)
        /\ tx' = pending_tx
    /\ attempts' = Append(attempts, name)
    /\ pc' = "wait"
    /\ UNCHANGED <<blockNumber, nonce, code, logs, receipts>>
    /\ UNCHANGED <<name, manager, impl_addr, obtained, history, streamVars>>

\* Mutant: a failed send is retried.
deploy_send_err_retry ==
    /\ pc = "send"
    /\ attempts' = Append(attempts, name)
    /\ UNCHANGED <<pc, name, manager, impl_addr, tx, obtained, history>>
    /\ UNCHANGED <<chainVars, streamVars>>

\* deploy(): tx.send() fails; the error is returned by `?`.
deploy_send_err ==
    /\ pc = "send"
    /\ Return(Err("SubmissionFailed"), Append(attempts, name), obtained)
    /\ UNCHANGED <<impl_addr, chainVars, streamVars>>

\* deploy(): get_receipt() returns the receipt of the mined transaction; the
\* rest of deploy() and of deploy_key_manager_contract up to the next await.
deploy_get_receipt ==
    /\ pc = "wait"
    /\ tx.hash \in DOMAIN receipts
    /\ LET receipt == receipts[tx.hash]
           res == contract_address_ok_or(receipt)
           obt == Append(obtained, receipt)
       IN IF ~res.ok
          THEN Return(res, attempts, obt) /\ UNCHANGED impl_addr
          ELSE IF name = KeyManagerName
          THEN /\ impl_addr' = res.addr
               /\ tx' = ERC1967Proxy_deploy_builder(res.addr[1], manager)
               /\ name' = ProxyName
               /\ obtained' = obt
               /\ pc' = "send"
               /\ UNCHANGED <<manager, attempts, history>>
          ELSE /\ Return(Ok(deploy_key_manager_contract_value(impl_addr[1], res.addr[1])),
                         attempts, obt)
               /\ UNCHANGED impl_addr
    /\ UNCHANGED <<chainVars, streamVars>>

\* Mutant: when the proxy's receipt cannot be had, the implementation's address
\* is returned instead of the error.
deploy_get_receipt_err_fallback ==
    /\ pc = "wait"
    /\ Return(IF impl_addr = None THEN Err("NotMined") ELSE Ok(impl_addr[1]),
              attempts, obtained)
    /\ UNCHANGED <<impl_addr, chainVars, streamVars>>

\* deploy(): get_receipt() fails (the transaction is not mined in time, or the
\* receipt cannot be fetched); the error is returned by `?`.  Nothing is
\* withdrawn: the transaction stays with the node, which may still mine it.
deploy_get_receipt_err ==
    /\ pc = "wait"
    /\ Return(Err("NotMined"), attempts, obtained)
    /\ UNCHANGED <<impl_addr, chainVars, streamVars>>

\* ------------------------------------------- KeyManager writes (the caller)
\* The addresses the caller holds: those returned by successful deployments.
ReturnedAddresses == { history[i].result.addr[1] : i \in { j \in DOMAIN history : history[j].result.ok } }

\* The number of committees created so far, on all contracts.
CommitteesCreated ==
    Cardinality({ i \in DOMAIN logs : logs[i].topic0 = CommitteeCreated_SIGNATURE })

\* The transaction contract.setNextCommittee(ts, members) sends to `a`.
setNextCommittee_tx(a, ts, members) ==
    [name |-> "setNextCommittee", args |-> <<a, ts, members>>, call |-> 0, hash |-> Len(sent)]

\* Mutant: ids are counted from one.
NextCommittee_from_one(a, ts, members) ==
    [id |-> Len(code[a].committees) + 1, registeredBlockNumber |-> blockNumber + 1,
     effectiveTimestamp |-> ts, members |-> members]

\* The committee a successful setNextCommittee(ts, members) stores at `a`.
NextCommittee(a, ts, members) ==
    [id |-> Len(code[a].committees), registeredBlockNumber |-> blockNumber + 1,
     effectiveTimestamp |-> ts, members |-> members]

\* contract.setNextCommittee(ts, members).send().await.get_receipt().await on
\* the contract at `a`: the transaction is mined in the next block and succeeds.
\* Its receipt is awaited, so what the signer sent before it is mined before it.
setNextCommittee(a, ts, members) ==
    /\ pc = "idle"
    /\ mempool = {}
    /\ a \in ReturnedAddresses
    /\ a \in DOMAIN code
    /\ code[a].kind = "proxy"
    /\ CommitteesCreated < MaxCommittees
    /\ blockNumber < MaxBlocks
    /\ LET c == NextCommittee(a, ts, members) IN
        /\ code' = [code EXCEPT ![a].committees = Append(@, c)]
        /\ logs' = Append(logs, ChainLog(a, CommitteeCreated_SIGNATURE, <<c.id>>, Len(sent)))
    /\ receipts' = receipts @@ (Len(sent) :> Receipt(None))
    /\ sent' = Append(sent, setNextCommittee_tx(a, ts, members))
    /\ blockNumber' = blockNumber + 1
    /\ nonce' = nonce + 1
    /\ UNCHANGED <<mempool, callVars, streamVars>>

\* The same transaction, mined and reverted (whatever the cause, so its arguments
\* are fixed): a block passes, nothing is stored.
setNextCommittee_reverted(a) ==
    /\ pc = "idle"
    /\ mempool = {}
    /\ a \in ReturnedAddresses
    /\ blockNumber < MaxBlocks
    /\ receipts' = receipts @@ (Len(sent) :> Receipt(None))
    /\ LET in == CHOOSE i \in CommitteeInputs : TRUE IN
        sent' = Append(sent, setNextCommittee_tx(a, in.timestamp, in.members))
    /\ blockNumber' = blockNumber + 1
    /\ nonce' = nonce + 1
    /\ UNCHANGED <<code, logs, mempool, callVars, streamVars>>

\* ----------------------------------------------------------- provider.rs
\* Mutant: the log is validated against another event's signature.
log_decode_validate_other_event(log) ==
    IF log.topic0 = Upgraded_SIGNATURE /\ Len(log.data) = 1
    THEN [ok |-> TRUE, event |-> [address |-> log.address, id |-> log.data[1]]]
    ELSE [ok |-> FALSE, event |-> [address |-> log.address, id |-> 0]]

\* log.log_decode_validate::<CommitteeCreated>(): the first topic must be the
\* event's signature and the body must decode to exactly the event's fields.
log_decode_validate(log) ==
    IF log.topic0 = CommitteeCreated_SIGNATURE /\ Len(log.data) = 1
    THEN [ok |-> TRUE, event |-> [address |-> log.address, id |-> log.data[1]]]
    ELSE [ok |-> FALSE, event |-> [address |-> log.address, id |-> 0]]

\* Mutant: the decoded value is yielded whether or not validation passed.
filter_map_closure_unchecked(log) ==
    Some(log_decode_validate(log).event)

\* The closure given to filter_map: Some(event) for a log that validates, None
\* (after logging the error) for one that does not.
filter_map_closure(log) ==
    LET decoded == log_decode_validate(log) IN
    IF decoded.ok THEN Some(decoded.event) ELSE None

\* Filter::new().address(contract).event(E::SIGNATURE).from_block(from_block):
\* the set of addresses and the set of signatures to match (empty: any).
Filter(contract, from_block) ==
    [address |-> {contract}, event |-> {CommitteeCreated_SIGNATURE},
     from_block |-> from_block]

\* BlockNumberOrTag: Latest, or Number(n).
Latest == [tag |-> "latest", number |-> 0]
Number(n) == [tag |-> "number", number |-> n]

\* The values of from_block a caller can pass: Latest, or a block of the chain.
FromBlocks == {Latest} \cup { Number(n) : n \in 1..blockNumber }

\* The number of logs emitted before block `n`.
LogsBeforeBlock(n) == Cardinality({ i \in DOMAIN logs : logs[i].block_number < n })

\* Where in the chain's logs a subscription opened now can start: at the logs
\* to come, or, for a from_block in the past, also at that block when the node
\* replays (whether it does is the node's choice).
SubscriptionStarts(from_block) ==
    IF from_block.tag = "latest"
    THEN {Len(logs)}
    ELSE {Len(logs), LogsBeforeBlock(from_block.number)}

\* subscribe_logs(&filter): the subscription the node opens, starting after
\* the first `since` logs of the chain.
Subscription(contract, from_block, since) ==
    [contract |-> contract, filter |-> Filter(contract, from_block), since |-> since]

\* The logs the node owes the open subscription: those emitted since it was
\* opened that match its filter, in emission order.
MatchingLogs ==
    LET f == sub[1].filter
        Matches(l) == /\ (f.address = {} \/ l.address \in f.address)
                      /\ (f.event = {} \/ l.topic0 \in f.event)
    IN SelectSeq(SubSeq(logs, sub[1].since + 1, Len(logs)), Matches)

\* PubSubProvider::event_stream(contract, from_block): the subscription is opened.
event_stream(contract, from_block) ==
    /\ pc = "idle"
    /\ sub = None
    /\ \E since \in SubscriptionStarts(from_block) :
         sub' = Some(Subscription(contract, from_block, since))
    /\ UNCHANGED <<raw, yielded, rawEnded, ended, chainVars, callVars>>

\* Mutant: the first entry that fails validation ends the produced stream.
StreamNext_abort(log) ==
    /\ raw' = Append(raw, log)
    /\ yielded' = yielded \o filter_map_closure(log)
    /\ ended' = (filter_map_closure(log) = None)
    /\ UNCHANGED <<sub, rawEnded>>

\* One poll of the produced stream in which the underlying stream yields `log`.
StreamNext(log) ==
    /\ raw' = Append(raw, log)
    /\ yielded' = yielded \o filter_map_closure(log)
    /\ ended' = ended
    /\ UNCHANGED <<sub, rawEnded>>

\* One poll of the produced stream in which the underlying stream ends.
StreamEnd ==
    /\ rawEnded' = TRUE
    /\ ended' = TRUE
    /\ UNCHANGED <<sub, raw, yielded>>

\* The node pushes the next matching log to the subscription.
subscription_next ==
    /\ sub # None
    /\ ~rawEnded
    /\ ~ended
    /\ Len(raw) < Len(MatchingLogs)
    /\ StreamNext(MatchingLogs[Len(raw) + 1])
    /\ UNCHANGED <<chainVars, callVars>>

\* The underlying stream ends (the transport is closed or fails for good).
subscription_end ==
    /\ sub # None
    /\ ~rawEnded
    /\ ~ended
    /\ StreamEnd
    /\ UNCHANGED <<chainVars, callVars>>

Next ==
    \/ \E m \in Accounts : deploy_key_manager_contract(m)
    \/ deploy_send
    \/ deploy_send_err
    \/ \E t \in mempool : MineCreated(t)
    \/ \E t \in mempool : MineReverted(t)
    \/ deploy_get_receipt
    \/ deploy_get_receipt_err
    \/ \E a \in ReturnedAddresses, in \in CommitteeInputs :
           setNextCommittee(a, in.timestamp, in.members)
    \/ \E a \in ReturnedAddresses : setNextCommittee_reverted(a)
    \/ \E a \in ReturnedAddresses, from_block \in FromBlocks : event_stream(a, from_block)
    \/ subscription_next
    \/ subscription_end

Spec == Init /\ [][Next]_vars

\* ------------------------------------------- the produced stream on its own
\* The stream returned by event_stream over an arbitrary underlying stream: the
\* entries it delivers are drawn from RawLogs, valid and invalid, repeats included.
StreamContract == CreateAddress(1)

RawLogs ==
    [address : {StreamContract},
     topic0 : {CommitteeCreated_SIGNATURE, Upgraded_SIGNATURE},
     data : {<<>>, <<0>>, <<1>>, <<0, 1>>}]

InitStream ==
    /\ InitChain
    /\ InitCall
    /\ sub = Some(Subscription(StreamContract, Latest, 0))
    /\ raw = <<>>
    /\ yielded = <<>>
    /\ rawEnded = FALSE
    /\ ended = FALSE

\* The underlying stream yields `log`.
underlying_next(log) ==
    /\ ~rawEnded
    /\ ~ended
    /\ Len(raw) < MaxRaw
    /\ StreamNext(log)
    /\ UNCHANGED <<chainVars, callVars>>

NextStream ==
    \/ \E log \in RawLogs : underlying_next(log)
    \/ subscription_end

StreamSpec == InitStream /\ [][NextStream]_vars
\* ================================================================ claims
\* Helpers of the claims, stated from the chain's records alone.
\* The manager argument of call number `c` (completed or running).
ManagerOfCall(c) == IF c \in DOMAIN history THEN history[c].manager ELSE manager

\* The transactions of call number `c` the node accepted, in submission order.
SentByCall(c) ==
    LET OfCall(t) == t.call = c IN SelectSeq(sent, OfCall)

IsMinedWithAddress(t) ==
    /\ t.hash \in DOMAIN receipts
    /\ receipts[t.hash].contract_address # None

\* C1: a proxy-deployment transaction is submitted only after the call's
\* implementation-deployment transaction was mined with a created address,
\* and carries exactly that address and initialize(manager) of the caller's
\* manager; the two deployments of a call are never pending together, and
\* the implementation's is always the earlier.
C1_ProxyAfterImplementation ==
    /\ \A i \in DOMAIN sent :
         sent[i].name = ProxyName =>
           \E j \in 1..(i - 1) :
             /\ sent[j].name = KeyManagerName
             /\ sent[j].call = sent[i].call
             /\ IsMinedWithAddress(sent[j])
             /\ sent[j] \notin mempool
             /\ sent[i].args = << receipts[sent[j].hash].contract_address[1],
                                  <<"initialize", ManagerOfCall(sent[i].call)>> >>
    /\ \A t1 \in mempool, t2 \in mempool : t1.call = t2.call => t1 = t2
    /\ \A c \in 1..(Len(history) + 1) :
         \A k \in DOMAIN SentByCall(c) :
           SentByCall(c)[k].name = (IF k = 1 THEN KeyManagerName ELSE ProxyName)

\* A proxy deployment is pending, built for a manager other than the signer.
C1_Witness ==
    \E t \in mempool :
      /\ t.name = ProxyName
      /\ ManagerOfCall(t.call) # default_signer_address
      /\ t.call = 2

\* The completed calls that returned Ok.
OkCalls == { i \in DOMAIN history : history[i].result.ok }

\* C2: the addresses returned by successful deployments are pairwise distinct,
\* each holds a contract whose manager() read returns the manager passed to
\* that call, and each is the proxy's address, never the implementation's.
C2_DistinctInitializedProxies ==
    \A i \in OkCalls :
      LET a == history[i].result.addr[1] IN
      /\ \A j \in OkCalls : i # j => history[j].result.addr[1] # a
      /\ a \in DOMAIN code
      /\ code[a].kind = "proxy"
      /\ manager_call(a) = history[i].manager
      /\ \A t \in { sent[k] : k \in DOMAIN sent } :
           (IsMinedWithAddress(t) /\ receipts[t.hash].contract_address = Some(a))
             => t.name = ProxyName
      /\ history[i].impl_addr # Some(a)

\* Two deployments have succeeded, for two different managers.
C2_Witness ==
    /\ Cardinality(OkCalls) = 2
    /\ \E i \in OkCalls, j \in OkCalls : history[i].manager # history[j].manager

\* C3: a call ends with ContractNotDeployed exactly when a receipt it obtained
\* names no created address; such a call returns no address, and when the
\* receipt is the implementation's no proxy deployment is ever submitted for it.
C3_NoContractAddress ==
    \A i \in DOMAIN history :
      LET h == history[i]
          missing == { k \in DOMAIN h.obtained : h.obtained[k].contract_address = None }
      IN /\ (missing # {}) <=> (h.result.err = "ContractNotDeployed")
         /\ missing # {} =>
              /\ ~h.result.ok
              /\ h.result.addr = None
              /\ missing = {Len(h.obtained)}
              /\ 1 \in missing => \A t \in { sent[k] : k \in DOMAIN sent } :
                                     t.call = i => t.name # ProxyName

\* One call failed on the implementation's receipt and another on the proxy's.
C3_Witness ==
    /\ \E i \in DOMAIN history :
         /\ history[i].result.err = "ContractNotDeployed"
         /\ Len(history[i].obtained) = 1
    /\ \E i \in DOMAIN history :
         /\ history[i].result.err = "ContractNotDeployed"
         /\ Len(history[i].obtained) = 2

\* The number of transactions a call that ended with `res` after the send
\* attempts `att` can have had accepted by the node.
AcceptedOf(res, att) ==
    IF res.err = "SubmissionFailed" THEN Len(att) - 1 ELSE Len(att)

\* C4: within one call each of the two deployments is submitted at most once,
\* the implementation's first; a call that failed has made no submission after
\* its failure: a failed send is its last send, a missing receipt or a receipt
\* without address belongs to its last transaction.
C4_NoRetry ==
    /\ \A c \in 1..(Len(history) + 1) : Len(SentByCall(c)) <= 2
    /\ Len(attempts) <= 2
    /\ \A k \in DOMAIN attempts :
         attempts[k] = (IF k = 1 THEN KeyManagerName ELSE ProxyName)
    /\ \A i \in DOMAIN history :
         LET h == history[i] IN
         /\ Len(h.attempts) \in 1..2
         /\ \A k \in DOMAIN h.attempts :
              h.attempts[k] = (IF k = 1 THEN KeyManagerName ELSE ProxyName)
         /\ Len(SentByCall(i)) = AcceptedOf(h.result, h.attempts)
         /\ h.result.err = "SubmissionFailed" => Len(h.obtained) = Len(h.attempts) - 1
         /\ h.result.err = "NotMined" => Len(h.obtained) = Len(h.attempts) - 1
         /\ h.result.err = "ContractNotDeployed" => Len(h.obtained) = Len(h.attempts)
         /\ ~h.result.ok => h.result.err \in {"SubmissionFailed", "NotMined", "ContractNotDeployed"}
         /\ h.result.ok => Len(h.attempts) = 2 /\ Len(h.obtained) = 2

\* A call failed at its proxy step and a later call has run since.
C4_Witness ==
    /\ Len(history) = 2
    /\ ~history[1].result.ok
    /\ Len(history[1].attempts) = 2
    /\ history[1].result.err = "NotMined"

\* C10: a call whose implementation was deployed and whose proxy deployment then
\* failed returns an error and no address, and the implementation stays on
\* chain; a call that returned Ok left both contracts on chain, the proxy
\* pointing at the implementation.
C10_NotAtomic ==
    \A i \in DOMAIN history :
      LET h == history[i] IN
      /\ (~h.result.ok /\ h.impl_addr # None) =>
           /\ h.result.addr = None
           /\ h.impl_addr[1] \in DOMAIN code
           /\ code[h.impl_addr[1]].kind = "impl"
      /\ h.result.ok =>
           /\ h.impl_addr # None
           /\ h.impl_addr[1] \in DOMAIN code
           /\ code[h.impl_addr[1]].kind = "impl"
           /\ h.result.addr[1] \in DOMAIN code
           /\ code[h.result.addr[1]].kind = "proxy"
           /\ code[h.result.addr[1]].implementation = h.impl_addr[1]

\* A call deployed its implementation, failed on the proxy, and the chain has
\* moved on since.
C10_Witness ==
    \E i \in DOMAIN history :
      /\ ~history[i].result.ok
      /\ history[i].impl_addr # None
      /\ history[i].impl_addr[1] \in DOMAIN code
      /\ Len(history) > i

\* A raw entry that matches the CommitteeCreated schema, and the event it holds.
IsCommitteeCreated(l) == l.topic0 = "CommitteeCreated(uint64)" /\ Len(l.data) = 1
EventOf(l) == [address |-> l.address, id |-> l.data[1]]

\* The events of the entries of `entries` that match the schema, in order.
RECURSIVE ValidEvents(_)
ValidEvents(entries) ==
    IF entries = <<>> THEN <<>>
    ELSE LET rest == ValidEvents(SubSeq(entries, 1, Len(entries) - 1))
             l == entries[Len(entries)]
         IN IF IsCommitteeCreated(l) THEN Append(rest, EventOf(l)) ELSE rest

\* C5: a poll in which the underlying stream delivers an entry that fails
\* validation yields nothing and does not end the produced stream; one that
\* delivers a valid entry yields its event, whatever was dropped before; the
\* produced stream ends only in a poll in which the underlying stream ends.
C5_InvalidEntryDropped ==
    [][ /\ Len(raw') = Len(raw) + 1 =>
             LET l == raw'[Len(raw')] IN
             /\ ended' = ended
             /\ ~IsCommitteeCreated(l) => yielded' = yielded
             /\ IsCommitteeCreated(l) => yielded' = Append(yielded, EventOf(l))
        /\ (ended' /\ ~ended) => (rawEnded' /\ ~rawEnded)
        /\ (rawEnded' /\ ~rawEnded) => ended'
      ]_vars

\* An invalid entry was delivered, then a valid one, which was yielded; the
\* stream is still open.
C5_Witness ==
    /\ Len(raw) = 2
    /\ ~IsCommitteeCreated(raw[1])
    /\ IsCommitteeCreated(raw[2])
    /\ yielded = <<EventOf(raw[2])>>
    /\ ~ended

\* C6: the produced sequence is exactly the events of the valid raw entries,
\* in delivery order: nothing reordered, repeated, merged or invented.
C6_OrderPreserved == yielded = ValidEvents(raw)

\* The same valid entry was delivered twice around an invalid one, after a
\* different valid entry; all three valid ones were yielded.
C6_Witness ==
    /\ Len(raw) = 4
    /\ IsCommitteeCreated(raw[1])
    /\ raw[2] = raw[4]
    /\ raw[2] # raw[1]
    /\ IsCommitteeCreated(raw[2])
    /\ ~IsCommitteeCreated(raw[3])
    /\ Len(yielded) = 3

\* The CommitteeCreated logs the contract at `a` has emitted, in order.
CreatedLogs(a) ==
    LET Created(l) == l.address = a /\ l.topic0 = "CommitteeCreated(uint64)"
    IN SelectSeq(logs, Created)

\* C7: the k-th successful setNextCommittee on a contract created the committee
\* with id k-1, and getCommitteeById still returns it with that id and with the
\* timestamp and members that transaction carried, whatever was registered since.
C7_DenseImmutableIds ==
    \A a \in DOMAIN code :
      /\ Len(code[a].committees) = Len(CreatedLogs(a))
      /\ \A k \in DOMAIN CreatedLogs(a) :
           LET l == CreatedLogs(a)[k]
               call == sent[l.transaction_hash + 1]
               c == getCommitteeById(a, k - 1)
           IN /\ l.data = <<k - 1>>
              /\ call.name = "setNextCommittee"
              /\ call.args[1] = a
              /\ c.id = k - 1
              /\ c.effectiveTimestamp = call.args[2]
              /\ c.members = call.args[3]

\* One contract holds two committees registered with different arguments.
C7_Witness ==
    \E a \in DOMAIN code :
      /\ Len(code[a].committees) = 2
      /\ code[a].committees[1].members # code[a].committees[2].members

\* The receipt that names `a` as the created contract.
CreationBlocks(a) ==
    { receipts[h].block_number : h \in { g \in DOMAIN receipts :
                                         receipts[g].contract_address = Some(a) } }

\* C8: the first committee of a contract has id 0, the timestamp and members of
\* its transaction, and the number of the block that transaction was mined in;
\* when the first call on a fresh chain succeeds its deployments are blocks 1
\* and 2, and a committee registered by the next transaction is registered at
\* block 3.
C8_FirstCommitteeBlock ==
    /\ \A a \in DOMAIN code :
         code[a].committees # <<>> =>
           LET l == CreatedLogs(a)[1]
               call == sent[l.transaction_hash + 1]
               c == getCommitteeById(a, 0)
           IN /\ c.id = 0
              /\ c.effectiveTimestamp = call.args[2]
              /\ c.members = call.args[3]
              /\ c.registeredBlockNumber = l.block_number
              /\ c.registeredBlockNumber = receipts[l.transaction_hash].block_number
    /\ (1 \in OkCalls) =>
         LET a == history[1].result.addr[1] IN
         /\ CreationBlocks(history[1].impl_addr[1]) = {1}
         /\ CreationBlocks(a) = {2}
         /\ (code[a].committees # <<>> /\ CreatedLogs(a)[1].transaction_hash = 2)
              => getCommitteeById(a, 0).registeredBlockNumber = 3

\* The first call succeeded and the third transaction registered a committee.
C8_Witness ==
    /\ 1 \in OkCalls
    /\ code[history[1].result.addr[1]].committees # <<>>
    /\ CreatedLogs(history[1].result.addr[1])[1].transaction_hash = 2
    /\ code[history[1].result.addr[1]].committees[1].registeredBlockNumber = 3

\* The CommitteeCreated logs of the subscribed contract emitted before and
\* after the subscription was opened.
CreatedBefore == { i \in 1..sub[1].since :
                     logs[i].address = sub[1].contract
                     /\ logs[i].topic0 = "CommitteeCreated(uint64)" }
CreatedAfter == { i \in (sub[1].since + 1)..Len(logs) :
                    logs[i].address = sub[1].contract
                    /\ logs[i].topic0 = "CommitteeCreated(uint64)" }

\* C9: a subscription opened from "latest" on a contract before it registered
\* any committee yields events with ids 0, 1, 2, ... in order, never more than
\* were registered, and all N of them once the underlying stream has delivered
\* its N logs (which it no longer does once it has ended).
C9_SubscriptionYieldsAll ==
    (sub # None /\ sub[1].filter.from_block.tag = "latest" /\ CreatedBefore = {}) =>
      LET N == Len(code[sub[1].contract].committees) IN
      /\ Len(yielded) <= N
      /\ \A k \in DOMAIN yielded :
           yielded[k] = [address |-> sub[1].contract, id |-> k - 1]
      /\ Len(raw) <= Cardinality(CreatedAfter)
      /\ Len(raw) = Cardinality(CreatedAfter) => Len(yielded) = N

\* Subscribed before any registration; two committees were registered on the
\* subscribed contract and both events were yielded.
C9_Witness ==
    /\ sub # None
    /\ sub[1].filter.from_block.tag = "latest"
    /\ CreatedBefore = {}
    /\ Len(code[sub[1].contract].committees) = 2
    /\ Len(yielded) = 2

====
